---- MODULE Spec2Model ----
(***************************************************************************)
(* ActivationStoreTheirs (src/core/activation_store_theirs.py): streaming  *)
(* of corpus records into fixed-length token windows (get_batch_tokens),   *)
(* extraction of activations (get_activations), building of a shuffled     *)
(* buffer (get_buffer), the storage/serve mixing (get_data_loader) and the *)
(* batch cursor (next_batch).                                              *)
(*                                                                         *)
(* A token is the pair <<r, p>>: position p of the r-th corpus record.     *)
(* An activation is the pair <<w, p>>: position p of the w-th window that  *)
(* was passed to the model.  The model and the tokenizer are opaque.       *)
(***************************************************************************)
EXTENDS Integers, Sequences, FiniteSets

VARIABLES
    cfg,                \* the configuration object (self.cfg)
    known,              \* number of records the dataset is known to hold so far
    cursor,             \* records consumed by the current self.iterable_dataset
    exhausted,          \* the dataset holds exactly `known` records
    n_next,             \* successful next(self.iterable_dataset) calls so far
    pc,                 \* control position of the running call
    origin,             \* the public call that is running: "ctor" or "next_batch"
    buf_caller,         \* who called get_buffer: "storage" (line 41) or "loader" (line 194)
    batch_tokens,       \* get_batch_tokens: completed windows
    current_batch,      \* get_batch_tokens: the accumulator (list of spans)
    current_length,     \* get_batch_tokens: running length of the accumulator
    record,             \* get_batch_tokens: tokens of the record as pulled
    tokens,             \* get_batch_tokens: remaining tokens of the record
    token_len,          \* get_batch_tokens: its running length
    refill_idx,         \* get_buffer: number of slices written
    refill_batch_tokens,\* get_buffer: the windows the packer returned
    new_buffer,         \* get_buffer: the buffer being built / returned
    n_windows,          \* windows passed to the model so far
    attrs,              \* instance attributes that exist
    storage_buffer,     \* self.storage_buffer
    dataloader,         \* self.dataloader: [data, order, pos]
    old_data,           \* the data of the DataLoader that was replaced last
    served,             \* records returned from the current DataLoader
    n_served,           \* batches returned from the current DataLoader
    result,             \* outcome of the last public call
    returned            \* the batch the last next_batch call returned

vars == << cfg, known, cursor, exhausted, n_next, pc, origin, buf_caller,
           batch_tokens, current_batch, current_length, record, tokens, token_len,
           refill_idx, refill_batch_tokens, new_buffer, n_windows, attrs,
           storage_buffer, dataloader, old_data, served, n_served, result, returned >>

(* Bounds of the model. *)
MaxContextSize == 2
MaxStoreBatch == 2
MaxTrainBatch == 3
MaxRecords == 6
MaxRecLen == 4
\* the n_batches_in_buffer the code passes to get_buffer (128 // 2), scaled down
HalfBatches == 2

BOS == << 0, 0 >>
Zero == << 0, 0 >>
PermKinds == { "rot", "riffle" }

Range(s) == { s[i] : i \in DOMAIN s }

RECURSIVE Flatten(_)
Flatten(ss) == IF ss = << >> THEN << >> ELSE Head(ss) \o Flatten(Tail(ss))

Min(a, b) == IF a <= b THEN a ELSE b

\* indexing by torch.randperm: the draw is one of two permutations, a rotation
\* by one place ("rot") or the odd places followed by the even ones ("riffle")
Permute(s, k) ==
    LET n == Len(s)
        h == (n + 1) \div 2
    IN  IF k = "rot"
        THEN [ i \in 1..n |-> s[(i % n) + 1] ]
        ELSE [ i \in 1..n |-> IF i <= h THEN s[2 * i - 1] ELSE s[2 * (i - h)] ]

\* tokens of the r-th record, of length len
RecordTokens(r, len) == [ p \in 1..len |-> << r, p >> ]

----------------------------------------------------------------------------
(* get_batch_tokens *)

SpaceLeft == cfg.context_size - current_length

\* lines 93-96: the remaining tokens fit
Fits == token_len <= SpaceLeft

\* the span taken is one token too long
TakenSpanOneMore == SubSeq(tokens, 1, SpaceLeft + 1)

\* line 100: the span taken when the tokens do not fit
TakenSpan == SubSeq(tokens, 1, SpaceLeft)

\* lines 103-110: the rest, with the BOS token in front
RestWithBos == << BOS >> \o SubSeq(tokens, SpaceLeft + 1, Len(tokens))

\* lines 117-121: the accumulated spans as one window
FullBatch(spans) == Flatten(spans)

PackerLocalsReset ==
    /\ batch_tokens' = << >>
    /\ current_batch' = << >>
    /\ current_length' = 0
    /\ record' = << >>
    /\ tokens' = << >>
    /\ token_len' = 0

PackerLocalsUnchanged ==
    UNCHANGED << batch_tokens, current_batch, current_length, record, tokens, token_len >>

BufferLocalsReset ==
    /\ refill_idx' = 0
    /\ refill_batch_tokens' = << >>
    /\ new_buffer' = << >>

DatasetUnchanged == UNCHANGED << known, cursor, exhausted, n_next >>

InstanceUnchanged ==
    UNCHANGED << attrs, storage_buffer, dataloader, old_data, served, n_served >>

\* an exception leaves the running public call: every frame is dropped
Raise(exc) ==
    /\ result' = exc
    /\ pc' = IF origin = "ctor" THEN "ctor_failed" ELSE "idle"
    /\ PackerLocalsReset
    /\ BufferLocalsReset

\* a record is pulled whether or not the batch is full
PackerPullAnyway ==
    /\ pc = "pack_outer"
    /\ \/ cursor < known /\ UNCHANGED known
       \/ cursor = known /\ ~exhausted /\ known < MaxRecords /\ known' = known + 1
    /\ cursor' = cursor + 1
    /\ n_next' = n_next + 1
    /\ \E len \in 0..MaxRecLen :
          /\ record' = RecordTokens(cursor', len)
          /\ tokens' = RecordTokens(cursor', len)
          /\ token_len' = len
    /\ pc' = "pack_inner"
    /\ UNCHANGED << cfg, exhausted, origin, buf_caller, batch_tokens, current_batch,
                    current_length, refill_idx, refill_batch_tokens, new_buffer,
                    n_windows, result, returned >>
    /\ InstanceUnchanged

\* lines 61-79, a record is there: pull it
PackerPull ==
    /\ pc = "pack_outer"
    /\ Len(batch_tokens) < cfg.store_batch_size
    /\ \/ cursor < known /\ UNCHANGED known
       \/ cursor = known /\ ~exhausted /\ known < MaxRecords /\ known' = known + 1
    /\ cursor' = cursor + 1
    /\ n_next' = n_next + 1
    /\ \E len \in 0..MaxRecLen :
          /\ record' = RecordTokens(cursor', len)
          /\ tokens' = RecordTokens(cursor', len)
          /\ token_len' = len
    /\ pc' = "pack_inner"
    /\ UNCHANGED << cfg, exhausted, origin, buf_caller, batch_tokens, current_batch,
                    current_length, refill_idx, refill_batch_tokens, new_buffer,
                    n_windows, result, returned >>
    /\ InstanceUnchanged

\* the iterator is made anew when it runs out, and the loop goes on
PackerWraparound ==
    /\ pc = "pack_outer"
    /\ Len(batch_tokens) < cfg.store_batch_size
    /\ cursor = known
    /\ exhausted' = TRUE
    /\ cursor' = 0
    /\ PackerLocalsUnchanged
    /\ UNCHANGED << cfg, known, n_next, pc, origin, buf_caller, refill_idx,
                    refill_batch_tokens, new_buffer, n_windows, result, returned >>
    /\ InstanceUnchanged

\* lines 63/74: next(self.iterable_dataset) raises StopIteration
PackerExhausted ==
    /\ pc = "pack_outer"
    /\ Len(batch_tokens) < cfg.store_batch_size
    /\ cursor = known
    /\ exhausted' = TRUE
    /\ Raise("StopIteration")
    /\ UNCHANGED << cfg, known, cursor, n_next, origin, buf_caller, n_windows, returned >>
    /\ InstanceUnchanged

\* lines 88-123: one pass of the inner loop
PackerStep ==
    /\ pc = "pack_inner"
    /\ token_len > 0
    /\ Len(batch_tokens) < cfg.store_batch_size
    /\ IF Fits
       THEN /\ current_batch' = Append(current_batch, SubSeq(tokens, 1, token_len))
            /\ current_length' = current_length + token_len
            /\ pc' = "pack_outer"
            /\ UNCHANGED << batch_tokens, tokens, token_len >>
       ELSE /\ tokens' = RestWithBos
            /\ token_len' = token_len - SpaceLeft + 1
            /\ batch_tokens' = Append(batch_tokens,
                                      FullBatch(Append(current_batch, TakenSpan)))
            /\ current_batch' = << >>
            /\ current_length' = 0
            /\ pc' = "pack_inner"
    /\ UNCHANGED << cfg, record, origin, buf_caller, refill_idx, refill_batch_tokens,
                    new_buffer, n_windows, result, returned >>
    /\ DatasetUnchanged
    /\ InstanceUnchanged

\* the inner loop ends only when no tokens are left
PackerInnerExitWhenEmpty ==
    /\ pc = "pack_inner"
    /\ ~(token_len > 0)
    /\ pc' = "pack_outer"
    /\ PackerLocalsUnchanged
    /\ UNCHANGED << cfg, origin, buf_caller, refill_idx, refill_batch_tokens,
                    new_buffer, n_windows, result, returned >>
    /\ DatasetUnchanged
    /\ InstanceUnchanged

\* line 88: the inner loop ends (no tokens left, or the batch is full)
PackerInnerExit ==
    /\ pc = "pack_inner"
    /\ ~(token_len > 0 /\ Len(batch_tokens) < cfg.store_batch_size)
    /\ pc' = "pack_outer"
    /\ PackerLocalsUnchanged
    /\ UNCHANGED << cfg, origin, buf_caller, refill_idx, refill_batch_tokens,
                    new_buffer, n_windows, result, returned >>
    /\ DatasetUnchanged
    /\ InstanceUnchanged

\* lines 61, 127: the outer loop ends, the windows are returned to get_buffer
PackerReturn ==
    /\ pc = "pack_outer"
    /\ ~(Len(batch_tokens) < cfg.store_batch_size)
    /\ refill_batch_tokens' = SubSeq(batch_tokens, 1, cfg.store_batch_size)
    /\ pc' = "extract"
    /\ PackerLocalsUnchanged
    /\ UNCHANGED << cfg, origin, buf_caller, refill_idx, new_buffer, n_windows,
                    result, returned >>
    /\ DatasetUnchanged
    /\ InstanceUnchanged

----------------------------------------------------------------------------
(* get_activations, get_buffer *)

\* lines 133-145: the activations of each window, one per position; the model
\* is opaque, so an activation is named by the window's call number and position
GetActivations(windows, done) ==
    [ i \in 1..Len(windows) |-> [ p \in 1..Len(windows[i]) |-> << done + i, p >> ] ]

\* line 151
TotalSize(n_batches_in_buffer) == cfg.store_batch_size * n_batches_in_buffer

\* lines 159-163: torch.zeros((total_size, context_size, num_layers, d_in))
AllocBuffer(n_batches_in_buffer) ==
    [ i \in 1..TotalSize(n_batches_in_buffer) |-> [ p \in 1..cfg.context_size |-> Zero ] ]

\* the slice written ends one window early
WriteSliceShort(buf, start, acts) ==
    [ j \in 1..Len(buf) |->
        IF start < j /\ j < start + cfg.store_batch_size THEN acts[j - start] ELSE buf[j] ]

\* lines 168-170: the slice assignment
WriteSlice(buf, start, acts) ==
    [ j \in 1..Len(buf) |->
        IF start < j /\ j <= start + cfg.store_batch_size THEN acts[j - start] ELSE buf[j] ]

\* the window axis is dropped by keeping each window's first position only
ReshapeFirstPosition(buf) == [ i \in 1..Len(buf) |-> buf[i][1] ]

\* line 174: new_buffer.reshape(-1, num_layers, d_in)
Reshape(buf) == Flatten(buf)

\* lines 147-163: get_buffer is entered
GetBufferEnter(caller) ==
    /\ ~cfg.use_cached_activations
    /\ buf_caller' = caller
    /\ refill_idx' = 0
    /\ refill_batch_tokens' = << >>
    /\ new_buffer' = AllocBuffer(HalfBatches)
    /\ pc' = "buf_loop"

\* lines 165-166 and 49-58: the next slice; get_batch_tokens is entered
GetBufferRefill ==
    /\ pc = "buf_loop"
    /\ refill_idx < HalfBatches
    /\ PackerLocalsReset
    /\ pc' = "pack_outer"
    /\ UNCHANGED << cfg, origin, buf_caller, refill_idx, refill_batch_tokens,
                    new_buffer, n_windows, result, returned >>
    /\ DatasetUnchanged
    /\ InstanceUnchanged

\* lines 167-170: the model call and the slice write
GetBufferExtract ==
    /\ pc = "extract"
    /\ new_buffer' = WriteSlice(new_buffer, refill_idx * cfg.store_batch_size,
                                GetActivations(refill_batch_tokens, n_windows))
    /\ n_windows' = n_windows + Len(refill_batch_tokens)
    /\ refill_idx' = refill_idx + 1
    /\ pc' = "buf_loop"
    /\ PackerLocalsUnchanged
    /\ UNCHANGED << cfg, origin, buf_caller, refill_batch_tokens, result, returned >>
    /\ DatasetUnchanged
    /\ InstanceUnchanged

\* line 167: the model call raises; the exception leaves get_buffer
GetBufferExtractFails ==
    /\ pc = "extract"
    /\ Raise("ModelError")
    /\ UNCHANGED << cfg, origin, buf_caller, n_windows, returned >>
    /\ DatasetUnchanged
    /\ InstanceUnchanged

\* lines 174-177: reshape, permute, return
GetBufferReturn ==
    /\ pc = "buf_loop"
    /\ ~(refill_idx < HalfBatches)
    /\ \E k \in PermKinds : new_buffer' = Permute(Reshape(new_buffer), k)
    /\ pc' = "buf_done"
    /\ PackerLocalsReset
    /\ UNCHANGED << cfg, origin, buf_caller, refill_idx, refill_batch_tokens,
                    n_windows, result, returned >>
    /\ DatasetUnchanged
    /\ InstanceUnchanged

----------------------------------------------------------------------------
(* get_data_loader, next_batch, __init__ *)

\* lines 193-196
MixingBuffer(fresh, stored) == fresh \o stored

\* the storage slice ends one record late
StorageHalfOverlap(mix) == SubSeq(mix, 1, Len(mix) \div 2 + 1)

\* the storage slice stops one record early
StorageHalfShort(mix) == SubSeq(mix, 1, Len(mix) \div 2 - 1)

\* line 201
StorageHalf(mix) == SubSeq(mix, 1, Len(mix) \div 2)

\* the serve slice starts one record early
ServeHalfOverlap(mix) == SubSeq(mix, Len(mix) \div 2, Len(mix))

\* the serve slice is the whole mixing buffer
ServeAll(mix) == mix

\* line 207
ServeHalf(mix) == SubSeq(mix, Len(mix) \div 2 + 1, Len(mix))

\* lines 204-211: iter(DataLoader(data, batch_size, shuffle=True)): the sampler's
\* order of the indices, and the number of indices already used
MakeLoader(data, k) ==
    [ data |-> data, order |-> Permute([ i \in 1..Len(data) |-> i ], k), pos |-> 0 ]

NoLoader == [ data |-> << >>, order |-> << >>, pos |-> 0 ]

LoaderExhausted(dl) == dl.pos >= Len(dl.data)

\* batches one record too long
LoaderBatchLenOneMore(dl) == Min(cfg.train_batch_size + 1, Len(dl.data) - dl.pos)

\* the DataLoader's batch size: drop_last is False, the last batch may be short
LoaderBatchLen(dl) == Min(cfg.train_batch_size, Len(dl.data) - dl.pos)

\* the batch is read from the start of the sampler's order, whatever the position
LoaderBatchFromStart(dl) == [ i \in 1..LoaderBatchLen(dl) |-> dl.data[dl.order[i]] ]

\* next(self.dataloader) on a loader that is not exhausted
LoaderBatch(dl) == [ i \in 1..LoaderBatchLen(dl) |-> dl.data[dl.order[dl.pos + i]] ]

\* lines 222 and 226: the batch is returned to the caller
ReturnBatch(dl) ==
    /\ returned' = LoaderBatch(dl)
    /\ dataloader' = [ dl EXCEPT !.pos = dl.pos + LoaderBatchLen(dl) ]
    /\ served' = served \o LoaderBatch(dl)
    /\ n_served' = n_served + 1
    /\ result' = "batch"
    /\ pc' = "idle"

\* line 41: the half buffer is stored; line 42 enters get_data_loader
StoreInitial ==
    /\ pc = "buf_done"
    /\ buf_caller = "storage"
    /\ storage_buffer' = new_buffer
    /\ attrs' = attrs \cup { "storage_buffer" }
    /\ GetBufferEnter("loader")
    /\ PackerLocalsUnchanged
    /\ UNCHANGED << cfg, origin, n_windows, dataloader, old_data, served, n_served,
                    result, returned >>
    /\ DatasetUnchanged

\* lines 193-213, then the assignment of line 42 or of line 225
Mix ==
    /\ pc = "buf_done"
    /\ buf_caller = "loader"
    /\ \E k1 \in PermKinds, k2 \in PermKinds :
          LET mixing_buffer == Permute(MixingBuffer(new_buffer, storage_buffer), k1)
          IN  /\ storage_buffer' = StorageHalf(mixing_buffer)
              /\ dataloader' = MakeLoader(ServeHalf(mixing_buffer), k2)
    /\ attrs' = attrs \cup { "dataloader" }
    /\ old_data' = dataloader.data
    /\ served' = << >>
    /\ n_served' = 0
    /\ BufferLocalsReset
    /\ IF origin = "ctor"
       THEN pc' = "idle" /\ result' = "constructed"
       ELSE pc' = "serve_new" /\ UNCHANGED result
    /\ PackerLocalsUnchanged
    /\ UNCHANGED << cfg, origin, buf_caller, n_windows, returned >>
    /\ DatasetUnchanged

\* lines 220-222: the DataLoader has a batch
NextBatchServe ==
    /\ pc = "idle"
    /\ ~LoaderExhausted(dataloader)
    /\ ReturnBatch(dataloader)
    /\ origin' = "next_batch"
    /\ PackerLocalsUnchanged
    /\ UNCHANGED << cfg, buf_caller, refill_idx, refill_batch_tokens, new_buffer,
                    n_windows, attrs, storage_buffer, old_data >>
    /\ DatasetUnchanged

\* the stored half is released before the fresh buffer is built
NextBatchRefillReleases ==
    /\ pc = "idle"
    /\ LoaderExhausted(dataloader)
    /\ origin' = "next_batch"
    /\ result' = "pending"
    /\ returned' = << >>
    /\ GetBufferEnter("loader")
    /\ storage_buffer' = << >>
    /\ PackerLocalsUnchanged
    /\ UNCHANGED << cfg, n_windows, attrs, dataloader, old_data, served, n_served >>
    /\ DatasetUnchanged

\* lines 223-225: StopIteration is caught, get_data_loader is entered
NextBatchRefill ==
    /\ pc = "idle"
    /\ LoaderExhausted(dataloader)
    /\ origin' = "next_batch"
    /\ result' = "pending"
    /\ returned' = << >>
    /\ GetBufferEnter("loader")
    /\ PackerLocalsUnchanged
    /\ UNCHANGED << cfg, n_windows >>
    /\ DatasetUnchanged
    /\ InstanceUnchanged

\* line 226: next() of the new DataLoader
NextBatchAfterRemix ==
    /\ pc = "serve_new"
    /\ IF LoaderExhausted(dataloader)
       THEN /\ result' = "StopIteration"
            /\ pc' = "idle"
            /\ UNCHANGED << returned, dataloader, served, n_served >>
       ELSE ReturnBatch(dataloader)
    /\ PackerLocalsUnchanged
    /\ UNCHANGED << cfg, origin, buf_caller, refill_idx, refill_batch_tokens, new_buffer,
                    n_windows, attrs, storage_buffer, old_data >>
    /\ DatasetUnchanged

\* lines 25-29 on an empty dataset: the sample's next() raises StopIteration
ConstructEmpty ==
    /\ pc = "new"
    /\ exhausted' = TRUE
    /\ result' = "StopIteration"
    /\ pc' = "ctor_failed"
    /\ PackerLocalsUnchanged
    /\ UNCHANGED << cfg, known, cursor, n_next, origin, buf_caller, refill_idx,
                    refill_batch_tokens, new_buffer, n_windows, returned >>
    /\ InstanceUnchanged

\* the iterator is not made anew after the sample
SampleDatasetNoReset ==
    /\ known' = 1
    /\ n_next' = n_next + 1
    /\ cursor' = 1
    /\ UNCHANGED exhausted

\* lines 25-34: the sample is pulled and the iterator is made anew
SampleDataset ==
    /\ known' = 1
    /\ n_next' = n_next + 1
    /\ cursor' = 0
    /\ UNCHANGED exhausted

\* lines 25-37 with use_cached_activations set
ConstructCached ==
    /\ pc = "new"
    /\ SampleDataset
    /\ cfg.use_cached_activations
    /\ result' = "NotImplementedError"
    /\ pc' = "ctor_failed"
    /\ PackerLocalsUnchanged
    /\ UNCHANGED << cfg, origin, buf_caller, refill_idx, refill_batch_tokens,
                    new_buffer, n_windows, returned >>
    /\ InstanceUnchanged

\* lines 25-41: the sample, then get_buffer for the storage half is entered
ConstructStart ==
    /\ pc = "new"
    /\ SampleDataset
    /\ ~cfg.use_cached_activations
    /\ result' = "pending"
    /\ GetBufferEnter("storage")
    /\ PackerLocalsUnchanged
    /\ UNCHANGED << cfg, origin, n_windows, returned >>
    /\ InstanceUnchanged

----------------------------------------------------------------------------

Configs ==
    [ context_size : 1..MaxContextSize,
      store_batch_size : 1..MaxStoreBatch,
      train_batch_size : 1..MaxTrainBatch,
      use_cached_activations : BOOLEAN ]

Init ==
    /\ cfg \in Configs
    /\ known = 0
    /\ cursor = 0
    /\ exhausted = FALSE
    /\ n_next = 0
    /\ pc = "new"
    /\ origin = "ctor"
    /\ buf_caller = "storage"
    /\ batch_tokens = << >>
    /\ current_batch = << >>
    /\ current_length = 0
    /\ record = << >>
    /\ tokens = << >>
    /\ token_len = 0
    /\ refill_idx = 0
    /\ refill_batch_tokens = << >>
    /\ new_buffer = << >>
    /\ n_windows = 0
    /\ attrs = { }
    /\ storage_buffer = << >>
    /\ dataloader = NoLoader
    /\ old_data = << >>
    /\ served = << >>
    /\ n_served = 0
    /\ result = "none"
    /\ returned = << >>

Next ==
    \/ ConstructEmpty
    \/ ConstructCached
    \/ ConstructStart
    \/ GetBufferRefill
    \/ PackerPull
    \/ PackerExhausted
    \/ PackerStep
    \/ PackerInnerExit
    \/ PackerReturn
    \/ GetBufferExtract
    \/ GetBufferExtractFails
    \/ GetBufferReturn
    \/ StoreInitial
    \/ Mix
    \/ NextBatchServe
    \/ NextBatchRefill
    \/ NextBatchAfterRemix

Spec == Init /\ [][Next]_vars

----------------------------------------------------------------------------
(* A dataset that never ends and holds no empty record; the model call       *)
(* always returns.  A running call goes on: the program is sequential.       *)

\* lines 61-79 on such a dataset: the next record is always there; the first
\* MaxRecords records have any length, the later ones the full length
PackerPullEndless ==
    /\ pc = "pack_outer"
    /\ Len(batch_tokens) < cfg.store_batch_size
    /\ known' = IF cursor = known THEN known + 1 ELSE known
    /\ cursor' = cursor + 1
    /\ n_next' = n_next + 1
    /\ \E len \in (IF cursor < MaxRecords THEN 1..MaxRecLen ELSE { MaxRecLen }) :
          /\ record' = RecordTokens(cursor', len)
          /\ tokens' = RecordTokens(cursor', len)
          /\ token_len' = len
    /\ pc' = "pack_inner"
    /\ UNCHANGED << cfg, exhausted, origin, buf_caller, batch_tokens, current_batch,
                    current_length, refill_idx, refill_batch_tokens, new_buffer,
                    n_windows, result, returned >>
    /\ InstanceUnchanged

\* lines 223-225; no further remix is started once MaxRecords records were pulled
NextBatchRefillBounded ==
    /\ n_next < MaxRecords
    /\ NextBatchRefill

\* the steps of a running call
CallSteps ==
    \/ GetBufferRefill
    \/ PackerPullEndless
    \/ PackerStep
    \/ PackerInnerExit
    \/ PackerReturn
    \/ GetBufferExtract
    \/ GetBufferReturn
    \/ StoreInitial
    \/ Mix
    \/ NextBatchAfterRemix

NextLive ==
    \/ ConstructCached
    \/ ConstructStart
    \/ NextBatchServe
    \/ NextBatchRefillBounded
    \/ CallSteps

SpecLive == Init /\ [][NextLive]_vars /\ WF_vars(CallSteps)

----------------------------------------------------------------------------
(* Properties *)

Count(s, x) == Cardinality({ i \in DOMAIN s : s[i] = x })

\* a and b hold the same records the same number of times
SameBag(a, b) == \A x \in Range(a) \cup Range(b) : Count(a, x) = Count(b, x)

NoRepeats(s) == \A i, j \in DOMAIN s : i # j => s[i] # s[j]

\* a build is running (or has just ended) for a remix that next_batch started
RemixRunning ==
    /\ origin = "next_batch"
    /\ pc \in { "buf_loop", "pack_outer", "pack_inner", "extract", "buf_done" }

\* C1 (as stated): every batch next_batch returns has exactly train_batch_size
\* records, whatever the size of the serve buffer.
C1_ExactBatchSize == result = "batch" => Len(returned) = cfg.train_batch_size

\* C1 (amended): every batch next_batch returns has between 1 and
\* train_batch_size records; it is shorter than train_batch_size only when it is
\* the last batch of a serve buffer whose size is no multiple of
\* train_batch_size, and then it holds the size modulo train_batch_size records.
C1_BatchSizeOrRemainder ==
    result = "batch" =>
        /\ Len(returned) >= 1
        /\ Len(returned) <= cfg.train_batch_size
        /\ Len(returned) # cfg.train_batch_size =>
              /\ dataloader.pos = Len(dataloader.data)
              /\ Len(returned) = Len(dataloader.data) % cfg.train_batch_size

C1_Witness ==
    /\ result = "batch"
    /\ Len(returned) < cfg.train_batch_size
    /\ Len(dataloader.data) > cfg.train_batch_size

\* the tokens of the record pulled last, in the order they stand in the windows
\* completed so far and in the accumulator, without the boundary markers
RecordTokensPacked ==
    SelectSeq(Flatten(batch_tokens) \o Flatten(current_batch),
              LAMBDA t : t # BOS /\ t[1] = cursor)

\* C2: when the packer is done with a record longer than context_size (it goes
\* on to the next record, or returns), the record's tokens in the windows, in
\* order and without the boundary markers, are the record's token sequence.
C2_RecordConservation ==
    (pc \in { "pack_outer", "extract" } /\ Len(record) > cfg.context_size)
        => RecordTokensPacked = record

\* C3 (as stated): the buffer build(n) returns holds store_batch_size * n
\* records, one per token window.
C3_OneRecordPerWindow ==
    pc = "buf_done" => Len(new_buffer) = TotalSize(HalfBatches)

\* C3 (amended): the buffer build(n) returns holds store_batch_size * n *
\* context_size records, each the activation of one token position (shape
\* (1, d_model)): every position of every window of the build exactly once.
C3_OneRecordPerPosition ==
    pc = "buf_done" =>
        /\ Len(new_buffer) = TotalSize(HalfBatches) * cfg.context_size
        /\ Range(new_buffer) =
              { << w, p >> : w \in (n_windows - TotalSize(HalfBatches) + 1)..n_windows,
                             p \in 1..cfg.context_size }

C3_Witness ==
    /\ pc = "buf_done"
    /\ cfg.context_size = 2
    /\ cfg.store_batch_size = 2
    /\ Len(new_buffer) = 8

\* C4: every window the packer has completed or returned has exactly
\* context_size tokens.
C4_WindowLength ==
    /\ \A i \in DOMAIN batch_tokens : Len(batch_tokens[i]) = cfg.context_size
    /\ \A i \in DOMAIN refill_batch_tokens :
          Len(refill_batch_tokens[i]) = cfg.context_size

\* a returned batch with a window that joins two records and one that continues
\* a split record
C4_Witness ==
    /\ pc = "extract"
    /\ \E i \in DOMAIN refill_batch_tokens :
          \E a, b \in Range(refill_batch_tokens[i]) :
              a # BOS /\ b # BOS /\ a[1] # b[1]
    /\ \E i \in DOMAIN refill_batch_tokens : refill_batch_tokens[i][1] = BOS

\* C5: once stored, the storage buffer keeps its number of records; the serve
\* buffer of every remix has as many; the fresh buffer of every remix has as
\* many as the storage buffer it is mixed with.
C5_SizesStable ==
    /\ [](/\ "dataloader" \in attrs => Len(dataloader.data) = Len(storage_buffer)
          /\ (pc = "buf_done" /\ buf_caller = "loader")
                => Len(new_buffer) = Len(storage_buffer))
    /\ [][ "storage_buffer" \in attrs
             => Len(storage_buffer') = Len(storage_buffer) ]_vars

\* a remix started by next_batch has ended
C5_Witness ==
    /\ pc = "idle"
    /\ origin = "next_batch"
    /\ old_data # << >>
    /\ Len(storage_buffer) >= 2

\* C6: in every remix the fresh buffer and the stored buffer together hold the
\* same records, as often, as the new storage buffer and the serve buffer.
C6_MixKeepsRecords ==
    [][ (pc = "buf_done" /\ buf_caller = "loader")
          => SameBag(new_buffer \o storage_buffer,
                     storage_buffer' \o dataloader'.data) ]_vars

\* after a remix the records of the first build are in both outputs
C6_Witness ==
    /\ pc \in { "idle", "serve_new" }
    /\ \E r \in Range(storage_buffer) : r[1] <= TotalSize(HalfBatches)
    /\ \E r \in Range(dataloader.data) : r[1] <= TotalSize(HalfBatches)
    /\ \E r \in Range(storage_buffer) : r[1] > TotalSize(HalfBatches)

\* C7: the batches returned from one DataLoader hold no record twice and only
\* records of its serve buffer; a remix is started by next_batch only when they
\* hold every record of it; a serve buffer of 2 * train_batch_size records has
\* then been returned in two batches.
C7_ServeOnceThenRemix ==
    /\ NoRepeats(served)
    /\ Range(served) \subseteq Range(dataloader.data)
    /\ RemixRunning =>
          /\ Range(served) = Range(dataloader.data)
          /\ Len(served) = Len(dataloader.data)
          /\ Len(dataloader.data) = 2 * cfg.train_batch_size => n_served = 2

C7_Witness ==
    /\ RemixRunning
    /\ Len(dataloader.data) = 2 * cfg.train_batch_size
    /\ n_served = 2

\* C8: a returned batch holds records of the current serve buffer only, and
\* none of the serve buffer that was replaced.
C8_OneGeneration ==
    result = "batch" =>
        /\ Range(returned) \subseteq Range(dataloader.data)
        /\ Range(returned) \cap Range(old_data) = { }

\* the batch returned by a next_batch call that made a remix
C8_Witness ==
    /\ result = "batch"
    /\ n_served = 1
    /\ old_data # << >>
    /\ Len(returned) >= 2

\* C9: once the dataset has raised StopIteration, the cursor stays at the end,
\* the running call ends at once with that failure, and no later call returns
\* a batch: each ends with the same failure at its first pull.
C9_ExhaustionIsFatal ==
    /\ [](exhausted =>
            /\ cursor = known
            /\ result \in { "StopIteration", "pending" }
            /\ pc \in { "idle", "ctor_failed" } => result = "StopIteration")
    /\ [][ (exhausted' /\ ~exhausted)
             => (pc' \in { "idle", "ctor_failed" } /\ result' = "StopIteration") ]_vars
    /\ [][ (exhausted /\ pc = "pack_outer")
             => (pc' = "idle" /\ result' = "StopIteration" /\ n_next' = n_next) ]_vars

\* a next_batch call made after the failure is at its pull
C9_Witness ==
    /\ exhausted
    /\ pc = "pack_outer"
    /\ origin = "next_batch"
    /\ result = "pending"

\* C10 (as stated): with cached activations requested, construction fails with
\* the not-implemented error and no record has been pulled, no window packed,
\* no model call made and no buffer stored.
C10_NothingPulled ==
    (cfg.use_cached_activations /\ pc = "ctor_failed") =>
        /\ result = "NotImplementedError"
        /\ n_next = 0
        /\ n_windows = 0
        /\ batch_tokens = << >>
        /\ attrs = { }

\* C10 (amended): with cached activations requested, construction fails with
\* the not-implemented error after exactly one record, the sample, has been
\* pulled and the iterator has been made anew at the start (on an empty dataset
\* it fails at the sample with StopIteration); no window is packed, no model
\* call is made and no buffer is stored.
C10_OnlySamplePulled ==
    cfg.use_cached_activations =>
        /\ pc \in { "new", "ctor_failed" }
        /\ n_windows = 0
        /\ batch_tokens = << >>
        /\ attrs = { }
        /\ pc = "ctor_failed" =>
              \/ /\ result = "NotImplementedError"
                 /\ n_next = 1
                 /\ cursor = 0
                 /\ known = 1
              \/ /\ result = "StopIteration"
                 /\ n_next = 0
                 /\ exhausted

C10_Witness == result = "NotImplementedError" /\ n_next = 1

\* C12: the packer never holds more than store_batch_size completed windows,
\* returns exactly store_batch_size of them, and a record that has just been
\* pulled was pulled while fewer than store_batch_size windows were completed.
C12_ExactlyBatchSizeWindows ==
    /\ Len(batch_tokens) <= cfg.store_batch_size
    /\ pc = "extract" =>
          /\ Len(refill_batch_tokens) = cfg.store_batch_size
          /\ refill_batch_tokens = batch_tokens
    /\ (pc = "pack_inner" /\ tokens = record) =>
          Len(batch_tokens) < cfg.store_batch_size

\* a call that pulled several records returns two windows
C12_Witness ==
    /\ pc = "extract"
    /\ cfg.store_batch_size = 2
    /\ Len(refill_batch_tokens) = 2
    /\ \E a, b \in Range(Flatten(refill_batch_tokens)) :
          a # BOS /\ b # BOS /\ a[1] # b[1]

\* C13: a window that starts with the boundary marker goes on with the next
\* token of the record whose token ends the window before it; the marker is
\* never put in front of the first token of a record.
C13_MarkerOnlyWhenSplit ==
    \A i \in 2..Len(batch_tokens) :
        LET w == batch_tokens[i]
            prev == batch_tokens[i - 1]
            n == cfg.context_size
        IN  (n >= 2 /\ w[1] = BOS /\ w[2] # BOS) =>
                /\ prev[n] # BOS
                /\ prev[n][1] = w[2][1]
                /\ w[2][2] = prev[n][2] + 1

\* C14: when the packer is about to pull a record, the accumulator is not
\* full: an accumulator that reached context_size has been emitted and reset.
C14_EmittedBeforeNextPull ==
    pc = "pack_outer" => current_length < cfg.context_size

\* the tokens of corpus records, markers left out, among ts
RealTokens(ts) == { t \in Range(ts) : t # BOS }

\* tokens pulled that are in no completed window yet: the accumulator and
\* what is left of the current record
PendingTokens == RealTokens(Flatten(current_batch)) \cup RealTokens(tokens)

\* tokens in completed or returned windows
WindowTokens ==
    RealTokens(Flatten(batch_tokens)) \cup RealTokens(Flatten(refill_batch_tokens))

\* C15: unless the call fails, no step discards a token that was pulled and is
\* in no window yet: it stays in the accumulator or in the rest of the record,
\* or it goes into a window.
C15_NoTokenLost ==
    [][ result' \notin { "StopIteration", "ModelError" }
          => \A t \in PendingTokens : t \in PendingTokens' \cup WindowTokens' ]_vars

\* a remix that next_batch started has not reached the mixing yet
BeforeMixing ==
    \/ pc = "idle" /\ LoaderExhausted(dataloader)
    \/ origin = "next_batch" /\ pc \in { "buf_loop", "pack_outer", "pack_inner", "extract" }

\* C16: no step of a remix started by next_batch changes the storage buffer or
\* the DataLoader before the fresh buffer is complete; the step that fails ends
\* the call with no batch returned, the buffer in progress dropped and the
\* DataLoader still exhausted.
C16_FailedRemixKeepsState ==
    [][ BeforeMixing =>
          /\ storage_buffer' = storage_buffer
          /\ dataloader' = dataloader
          /\ result' \in { "StopIteration", "ModelError" } =>
                /\ pc' = "idle"
                /\ new_buffer' = << >>
                /\ returned' = << >>
                /\ LoaderExhausted(dataloader') ]_vars

\* a remix started by next_batch failed after its first slice was written
C16_Witness ==
    /\ pc = "idle"
    /\ result = "StopIteration"
    /\ n_windows > 2 * TotalSize(HalfBatches)
    /\ Len(storage_buffer) >= 2
    /\ LoaderExhausted(dataloader)

Disjoint(a, b) == Range(a) \cap Range(b) = { }

\* C17: no record is in the storage buffer and in a serve buffer, in the
\* current serve buffer and in the one it replaced, or twice in either; the
\* records of a fresh buffer are in none of them; no record is returned twice.
C17_ServedAtMostOnce ==
    /\ Disjoint(storage_buffer, dataloader.data)
    /\ Disjoint(storage_buffer, old_data)
    /\ Disjoint(dataloader.data, old_data)
    /\ NoRepeats(storage_buffer)
    /\ NoRepeats(dataloader.data)
    /\ NoRepeats(served)
    /\ pc = "buf_done" =>
          /\ Disjoint(new_buffer, storage_buffer)
          /\ Disjoint(new_buffer, dataloader.data)
          /\ Disjoint(new_buffer, old_data)

\* a record built during construction is returned from the second serve buffer
C17_Witness ==
    /\ result = "batch"
    /\ old_data # << >>
    /\ \E r \in Range(returned) : r[1] <= 2 * TotalSize(HalfBatches)
    /\ \E r \in Range(storage_buffer) : r[1] <= 2 * TotalSize(HalfBatches)

\* the j-th window of the buffer being built, once its slice is written
WrittenWindow(j) ==
    [ p \in 1..cfg.context_size |->
        << n_windows - refill_idx * cfg.store_batch_size + j, p >> ]

BuildRunning == pc \in { "buf_loop", "pack_outer", "pack_inner", "extract" }

C11_EveryCallReturns ==
    (pc \notin { "new", "idle", "ctor_failed" })
        ~> (pc = "idle" /\ result = IF origin = "ctor" THEN "constructed" ELSE "batch")

\* a next_batch call that made a remix has returned its batch
C11_Witness ==
    /\ pc = "idle"
    /\ origin = "next_batch"
    /\ result = "batch"
    /\ n_served = 1
    /\ old_data # << >>
    /\ ~exhausted
    /\ n_next > MaxRecords

====
